---- MODULE Spec2Model ----
(***************************************************************************)
(* Model of snrv/utils.py: the streaming correlation accumulator           *)
(* accumulate_correlation_matrices, the Cholesky based generalized         *)
(* eigensolver gen_eig_chol and the thresholded inverse                    *)
(* stable_symmetric_inverse.                                               *)
(*                                                                         *)
(* Arithmetic.  Tensors are modelled with exact arithmetic on values that  *)
(* a float tensor represents exactly: small integers for the accumulator,  *)
(* normalised rationals <<n, d>> for the two spectral routines, extended   *)
(* with the IEEE-754 specials  <<1,0>> = +inf, <<-1,0>> = -inf and         *)
(* <<0,0>> = NaN, which is what torch produces for 0 ** (-1) and inf * 0.  *)
(* Rounding of inexact results is outside the model: every input is drawn  *)
(* from a set on which each intermediate value is exactly representable.   *)
(***************************************************************************)
EXTENDS Integers, Sequences, FiniteSets

VARIABLES
    \* ---- accumulate_correlation_matrices ----
    n_comp,       \* number of basis functions (columns of z_t0 / z_tt)
    C00, C01, C10, C11,   \* the four accumulators, mutated in place by +=
    start,        \* the accumulators as they were handed to the first call
    batches,      \* the batches of the successful calls so far, in order
    acc_call,     \* arguments (z_t0, z_tt, pathweight) of the latest call
    acc_result,   \* "none" | "returned" | "AssertionError" for the latest call
    \* ---- stable_symmetric_inverse ----
    inv_A, inv_ret_sqrt,   \* the arguments A and ret_sqrt
    inv_eigh,     \* (w, V) as returned by torch.linalg.eigh(A)
    inv_w,        \* w after the torch.where threshold
    inv_B,        \* the returned tensor B
    inv_result,   \* "none" | "returned" | "AssertionError"
    \* ---- gen_eig_chol ----
    eig_C, eig_Q, \* the arguments C and Q
    eig_L,        \* the Cholesky factor of Q
    eig_eigh,     \* (w, vtilde) as returned by torch.linalg.eigh(Ctilde)
    eig_w, eig_v, \* the returned eigenvalues and eigenvectors
    eig_result    \* "none" | "returned" | "ValueError"

acc_vars == <<n_comp, C00, C01, C10, C11, start, batches, acc_call, acc_result>>
inv_vars == <<inv_A, inv_ret_sqrt, inv_eigh, inv_w, inv_B, inv_result>>
eig_vars == <<eig_C, eig_Q, eig_L, eig_eigh, eig_w, eig_v, eig_result>>

vars == <<acc_vars, inv_vars, eig_vars>>

\* a routine that has not been called
AccIdle ==
    /\ n_comp = 0 /\ start = <<>> /\ batches = <<>> /\ acc_call = <<>>
    /\ C00 = <<>> /\ C01 = <<>> /\ C10 = <<>> /\ C11 = <<>> /\ acc_result = "none"
InvIdle ==
    /\ inv_A = <<>> /\ inv_ret_sqrt = FALSE /\ inv_eigh = <<>> /\ inv_w = <<>>
    /\ inv_B = <<>> /\ inv_result = "none"
EigIdle ==
    /\ eig_C = <<>> /\ eig_Q = <<>> /\ eig_L = <<>> /\ eig_eigh = <<>>
    /\ eig_w = <<>> /\ eig_v = <<>> /\ eig_result = "none"

-----------------------------------------------------------------------------
(* Bounds and input alphabets                                              *)

\* total number of observations (rows) streamed through the accumulator
MaxObs == 2

\* diagonal entries of A are drawn from the multiples k * eps / 2, |k| <= MaxEig
MaxEig == 4

\* entries of C are drawn from -MaxC .. MaxC
MaxC == 2

\* machine epsilon of torch.float32 is 1 / EpsDen = 2^-23
EpsDen == 8388608

\* torch.allclose(A, A.t(), atol=1e-6) with the default rtol=1e-5
AtolDen == 1000000
RtolDen == 100000

\* entries of z_t0 and z_tt, pathweights, and accumulator sizes that are drawn
Vals == {0, 1}
Weights == {1, 2}
CompSizes == {1, 2}

-----------------------------------------------------------------------------
(* Integer tensors                                                         *)

\* tensor.size()[0] and tensor.size()[1] of a 2-D tensor with at least one row
Rows(M) == Len(M)
Cols(M) == Len(M[1])

RECURSIVE Tuple(_, _)
\* the function f on 1..n written out as the tuple <<f[1], ..., f[n]>>
Tuple(f, n) == IF n = 0 THEN <<>> ELSE Append(Tuple(f, n - 1), f[n])

\* the n x m tensor with entries f[i][j], written out row by row
Tensor(f, n, m) == Tuple([i \in 1..n |-> Tuple(f[i], m)], n)

\* torch.zeros(n, m)
Zeros(n, m) == Tensor([i \in 1..n |-> [j \in 1..m |-> 0]], n, m)

\* M.t()
Transpose(M) ==
    Tensor([j \in 1..Cols(M) |-> [i \in 1..Rows(M) |-> M[i][j]]], Cols(M), Rows(M))

RECURSIVE SumTo(_, _)
\* sum of f[1] .. f[n]
SumTo(f, n) == IF n = 0 THEN 0 ELSE SumTo(f, n - 1) + f[n]

\* torch.matmul(A, B) for 2-D tensors
MatMul(A, B) ==
    Tensor([i \in 1..Rows(A) |-> [j \in 1..Cols(B) |->
               SumTo([k \in 1..Cols(A) |-> A[i][k] * B[k][j]], Cols(A))]],
           Rows(A), Cols(B))

\* torch.multiply(A, B), same shapes
Multiply(A, B) ==
    Tensor([i \in 1..Rows(A) |-> [j \in 1..Cols(A) |-> A[i][j] * B[i][j]]],
           Rows(A), Cols(A))

\* torch.tile(torch.reshape(pathweight, (-1, 1)), (1, c))
TileWeights(pathweight, c) ==
    Tensor([i \in 1..Len(pathweight) |-> [j \in 1..c |-> pathweight[i]]],
           Len(pathweight), c)

\* mutant of IAdd: the accumulator is overwritten ("=" for "+=")
IAddOverwrite(C, M) == M

\* C += M  (in-place add of two n_comp x n_comp tensors)
IAdd(C, M) ==
    Tensor([i \in 1..Rows(C) |-> [j \in 1..Cols(C) |-> C[i][j] + M[i][j]]],
           Rows(C), Cols(C))

-----------------------------------------------------------------------------
(* Float values: exact rationals <<n, d>> in lowest terms with d > 0, and   *)
(* the IEEE-754 specials +inf = <<1, 0>>, -inf = <<-1, 0>>, NaN = <<0, 0>>  *)

Abs(n) == IF n < 0 THEN -n ELSE n
Sign(n) == IF n > 0 THEN 1 ELSE IF n < 0 THEN -1 ELSE 0

RECURSIVE Gcd(_, _)
Gcd(a, b) == IF b = 0 THEN a ELSE Gcd(b, a % b)

\* the float n / d
R(n, d) ==
    IF d = 0 THEN <<Sign(n), 0>>
    ELSE LET g == Gcd(Abs(n), Abs(d)) IN <<(Sign(d) * n) \div g, Abs(d) \div g>>

Zero == <<0, 1>>
One == <<1, 1>>
PosInf == <<1, 0>>
NaN == <<0, 0>>

IsNaN(x) == x = NaN
IsInf(x) == x[2] = 0 /\ x[1] # 0
IsFinite(x) == x[2] > 0

\* x + y
FAdd(x, y) ==
    IF IsInf(x) /\ IsInf(y) THEN (IF x = y THEN x ELSE NaN)
    ELSE IF ~IsFinite(x) \/ ~IsFinite(y) THEN R(x[1] * y[2] + y[1] * x[2], 0)
    ELSE LET g == Gcd(x[2], y[2])
         IN  R(x[1] * (y[2] \div g) + y[1] * (x[2] \div g), (x[2] \div g) * y[2])

\* x * y ; inf * 0 is NaN
FMul(x, y) == R(x[1] * y[1], x[2] * y[2])

FNeg(x) == <<-x[1], x[2]>>
FSub(x, y) == FAdd(x, FNeg(y))
FAbs(x) == <<Abs(x[1]), x[2]>>

\* x / y for finite x and finite non-zero y
FDiv(x, y) == R(x[1] * y[2], x[2] * y[1])

\* x > y and x <= y on finite values (every comparison with NaN is false)
FGreater(x, y) ==
    /\ IsFinite(x) /\ IsFinite(y)
    /\ LET g == Gcd(x[2], y[2]) IN x[1] * (y[2] \div g) > y[1] * (x[2] \div g)
FLeq(x, y) ==
    /\ IsFinite(x) /\ IsFinite(y)
    /\ LET g == Gcd(x[2], y[2]) IN x[1] * (y[2] \div g) <= y[1] * (x[2] \div g)

RECURSIVE ISqrtBetween(_, _, _)
\* the largest k in lo..hi with k * k <= n  (lo * lo <= n)
ISqrtBetween(n, lo, hi) ==
    IF lo = hi THEN lo
    ELSE LET mid == (lo + hi + 1) \div 2
         IN  IF mid * mid <= n THEN ISqrtBetween(n, mid, hi) ELSE ISqrtBetween(n, lo, mid - 1)

ISqrt(n) == ISqrtBetween(n, 0, IF n < 32768 THEN n ELSE 32768)
IsSquare(n) == n >= 0 /\ ISqrt(n) * ISqrt(n) = n

\* the finite x >= 0 has a square root that is again a rational
HasExactSqrt(x) == IsFinite(x) /\ IsSquare(x[1]) /\ IsSquare(x[2])
FSqrt(x) == <<ISqrt(x[1]), ISqrt(x[2])>>

\* w ** (-1.0) ; 0 ** (-1.0) is +inf
PowMinusOne(w) ==
    IF IsNaN(w) THEN NaN
    ELSE IF IsInf(w) THEN Zero
    ELSE IF w[1] = 0 THEN PosInf
    ELSE R(w[2] * Sign(w[1]), Abs(w[1]))

\* w ** (-0.5) ; 0 ** (-0.5) is +inf, a negative base gives NaN
PowMinusHalf(w) ==
    IF IsNaN(w) \/ w[1] < 0 THEN NaN
    ELSE IF IsInf(w) THEN Zero
    ELSE IF w[1] = 0 THEN PosInf
    ELSE FSqrt(<<w[2], w[1]>>)

RECURSIVE FSumTo(_, _)
FSumTo(f, n) == IF n = 1 THEN f[1] ELSE FAdd(FSumTo(f, n - 1), f[n])

\* torch.matmul(A, B) on float tensors
FMatMul(A, B) ==
    Tensor([i \in 1..Rows(A) |-> [j \in 1..Cols(B) |->
               FSumTo([k \in 1..Cols(A) |-> FMul(A[i][k], B[k][j])], Cols(A))]],
           Rows(A), Cols(B))

\* torch.diag(w) of a vector w
Diag(w) ==
    Tensor([i \in 1..Len(w) |-> [j \in 1..Len(w) |-> IF i = j THEN w[i] ELSE Zero]],
           Len(w), Len(w))

\* column j of M, and torch.flip along the only / the column dimension
Column(M, j) == Tuple([i \in 1..Rows(M) |-> M[i][j]], Rows(M))
FlipVector(w) == Tuple([i \in 1..Len(w) |-> w[Len(w) + 1 - i]], Len(w))
FlipColumns(M) ==
    Tensor([i \in 1..Rows(M) |-> [j \in 1..Cols(M) |-> M[i][Cols(M) + 1 - j]]],
           Rows(M), Cols(M))

\* the 2 x 2 float tensor with the integer entries a, b / c, d
Mat2(a, b, c, d) == <<<<R(a, 1), R(b, 1)>>, <<R(c, 1), R(d, 1)>>>>
Identity2 == Mat2(1, 0, 0, 1)

\* torch.linalg.inv of an invertible 2 x 2 tensor
Inv2(M) ==
    LET det == FSub(FMul(M[1][1], M[2][2]), FMul(M[1][2], M[2][1]))
    IN  <<<<FDiv(M[2][2], det), FDiv(FNeg(M[1][2]), det)>>,
          <<FDiv(FNeg(M[2][1]), det), FDiv(M[1][1], det)>>>>

\* torch.linalg.eigh reads the lower triangle of its argument
LowerSym(A) == <<<<A[1][1], A[2][1]>>, <<A[2][1], A[2][2]>>>>

\* orthogonal matrices the eigensolver can return exactly: V^T V = I
OrthoEntries == {R(-1, 1), Zero, One}
Orthogonal2 ==
    {V \in [1..2 -> [1..2 -> OrthoEntries]] : FMatMul(Transpose(V), V) = Identity2}

\* torch.linalg.eigh(A): every (w, V) with V orthogonal, A V = V diag(w) and w
\* ascending; which of them is returned (column signs, the basis of a repeated
\* eigenvalue) is the solver's choice
EighResults(A) ==
    {[w |-> <<e.D[1][1], e.D[2][2]>>, V |-> e.V] :
        e \in {x \in {[V |-> Tensor(V, 2, 2),
                       D |-> FMatMul(Transpose(V), FMatMul(LowerSym(A), V))] :
                          V \in Orthogonal2} :
                  /\ x.D[1][2] = Zero /\ x.D[2][1] = Zero
                  /\ FLeq(x.D[1][1], x.D[2][2])}}

-----------------------------------------------------------------------------
(* accumulate_correlation_matrices                                         *)

\* the two assert statements at the head of the function
ShapeAsserts(z_t0, z_tt, pathweight) ==
    /\ Rows(z_t0) = Rows(z_tt) /\ Rows(z_tt) = Len(pathweight)
    /\ Cols(z_t0) = Cols(z_tt)

\* mutant of Weighted: the pathweights are dropped
WeightedUnweighted(pathweight, z_tt, z) == z

\* the weighted copies z_tt_r and z_t0_r
Weighted(pathweight, z_tt, z) == Multiply(TileWeights(pathweight, Cols(z_tt)), z)

\* mutant of AccumulateBody: C00 is accumulated from z_tt_r, as C01 is
AccumulateBodyC00FromTt(z_t0, z_tt, pathweight, c00, c01, c10, c11) ==
    LET z_tt_r == Weighted(pathweight, z_tt, z_tt)
        z_t0_r == Weighted(pathweight, z_tt, z_t0)
    IN  [C00 |-> IAdd(c00, MatMul(Transpose(z_t0), z_tt_r)),
         C01 |-> IAdd(c01, MatMul(Transpose(z_t0), z_tt_r)),
         C10 |-> IAdd(c10, MatMul(Transpose(z_tt), z_t0_r)),
         C11 |-> IAdd(c11, MatMul(Transpose(z_tt), z_tt_r))]

\* mutant of AccumulateBody: z_t0_r is left unweighted
AccumulateBodyT0Unweighted(z_t0, z_tt, pathweight, c00, c01, c10, c11) ==
    LET z_tt_r == Weighted(pathweight, z_tt, z_tt)
        z_t0_r == z_t0
    IN  [C00 |-> IAdd(c00, MatMul(Transpose(z_t0), z_t0_r)),
         C01 |-> IAdd(c01, MatMul(Transpose(z_t0), z_tt_r)),
         C10 |-> IAdd(c10, MatMul(Transpose(z_tt), z_t0_r)),
         C11 |-> IAdd(c11, MatMul(Transpose(z_tt), z_tt_r))]

\* the body after the asserts: the four in-place updates, as a record
AccumulateBody(z_t0, z_tt, pathweight, c00, c01, c10, c11) ==
    LET z_tt_r == Weighted(pathweight, z_tt, z_tt)
        z_t0_r == Weighted(pathweight, z_tt, z_t0)
    IN  [C00 |-> IAdd(c00, MatMul(Transpose(z_t0), z_t0_r)),
         C01 |-> IAdd(c01, MatMul(Transpose(z_t0), z_tt_r)),
         C10 |-> IAdd(c10, MatMul(Transpose(z_tt), z_t0_r)),
         C11 |-> IAdd(c11, MatMul(Transpose(z_tt), z_tt_r))]

\* mutant of Accumulate: the asserts run after the update of C00
AccumulateAssertLate(z_t0, z_tt, pathweight, c00, c01, c10, c11) ==
    IF ~ShapeAsserts(z_t0, z_tt, pathweight)
    THEN [result |-> "AssertionError",
          acc |-> [C00 |-> IAdd(c00, MatMul(Transpose(z_t0), z_t0)),
                   C01 |-> c01, C10 |-> c10, C11 |-> c11]]
    ELSE [result |-> "returned",
          acc |-> AccumulateBody(z_t0, z_tt, pathweight, c00, c01, c10, c11)]

\* the whole call: its result and the accumulators it leaves behind
Accumulate(z_t0, z_tt, pathweight, c00, c01, c10, c11) ==
    IF ~ShapeAsserts(z_t0, z_tt, pathweight)
    THEN [result |-> "AssertionError",
          acc |-> [C00 |-> c00, C01 |-> c01, C10 |-> c10, C11 |-> c11]]
    ELSE [result |-> "returned",
          acc |-> AccumulateBody(z_t0, z_tt, pathweight, c00, c01, c10, c11)]

\* n x c tensors over Vals and weight vectors of length n
Tensors(n, c) == [1..n -> [1..c -> Vals]]
WeightVectors(n) == [1..n -> Weights]

Batch(a, b, p) == [z_t0 |-> a, z_tt |-> b, pathweight |-> p]

\* consistent batches of n observations for accumulators of size c
GoodBatches(n, c) ==
    {Batch(a, b, p) : a \in Tensors(n, c), b \in Tensors(n, c), p \in WeightVectors(n)}

Ones(n, c) == Tensor([i \in 1..n |-> [j \in 1..c |-> 1]], n, c)

\* batches whose shapes disagree: z_tt with an extra row or an extra column,
\* pathweight with an extra entry
BadBatches(c) ==
    {Batch(Ones(1, c), b, p) : b \in {Ones(1, c), Ones(2, c), Ones(1, c + 1)},
                               p \in {<<1>>, <<1, 1>>}}
    \ {Batch(Ones(1, c), Ones(1, c), <<1>>)}

RECURSIVE ObsCount(_)
\* number of observations in a sequence of batches
ObsCount(bs) == IF bs = <<>> THEN 0 ELSE Rows(bs[1].z_t0) + ObsCount(Tail(bs))

\* accumulators a caller may hand to the first call: zero, or partial sums
Ramp(c, k) == Tensor([i \in 1..c |-> [j \in 1..c |-> k * i + j]], c, c)
SymRamp(c) == Tensor([i \in 1..c |-> [j \in 1..c |-> i + j]], c, c)
Starts(c) ==
    {[C00 |-> Zeros(c, c), C01 |-> Zeros(c, c), C10 |-> Zeros(c, c), C11 |-> Zeros(c, c)],
     [C00 |-> SymRamp(c), C01 |-> Ramp(c, 2), C10 |-> Ramp(c, 3), C11 |-> SymRamp(c)]}

AccInit ==
    /\ n_comp \in CompSizes
    /\ start \in Starts(n_comp)
    /\ C00 = start.C00 /\ C01 = start.C01 /\ C10 = start.C10 /\ C11 = start.C11
    /\ batches = <<>>
    /\ acc_call = <<>>
    /\ acc_result = "none"
    /\ InvIdle /\ EigIdle

\* the state change of one call with arguments b
Call(b) ==
    \E r \in {Accumulate(b.z_t0, b.z_tt, b.pathweight, C00, C01, C10, C11)} :
        /\ acc_call' = b
        /\ acc_result' = r.result
        /\ C00' = r.acc.C00 /\ C01' = r.acc.C01
        /\ C10' = r.acc.C10 /\ C11' = r.acc.C11
        /\ batches' = IF r.result = "returned" THEN Append(batches, b) ELSE batches
        /\ UNCHANGED <<n_comp, start, inv_vars, eig_vars>>

\* one call of the streaming pass. The pass ends once MaxObs observations are
\* in, or when the assertion error of a call propagates to the caller.
AccumulateCorrelationMatrices ==
    /\ acc_result # "AssertionError"
    /\ ObsCount(batches) < MaxObs
    /\ \/ \E n \in 1..(MaxObs - ObsCount(batches)) :
             \E b \in GoodBatches(n, n_comp) : Call(b)
       \/ \E b \in BadBatches(n_comp) : Call(b)

AccNext == AccumulateCorrelationMatrices

SpecAcc == AccInit /\ [][AccNext]_vars

-----------------------------------------------------------------------------
(* Properties of accumulate_correlation_matrices                           *)

ZeroStart ==
    /\ start.C00 = Zeros(n_comp, n_comp) /\ start.C01 = Zeros(n_comp, n_comp)
    /\ start.C10 = Zeros(n_comp, n_comp) /\ start.C11 = Zeros(n_comp, n_comp)

RECURSIVE Observations(_)
\* every observation i of every batch so far: <<z_t0_i, z_tt_i, w_i>>
Observations(bs) ==
    IF bs = <<>> THEN <<>>
    ELSE [i \in 1..Rows(bs[1].z_t0) |->
             <<bs[1].z_t0[i], bs[1].z_tt[i], bs[1].pathweight[i]>>] \o Observations(Tail(bs))

\* w * (x (outer) y)
WeightedOuter(w, x, y) ==
    Tensor([i \in 1..Len(x) |-> [j \in 1..Len(y) |-> w * x[i] * y[j]]], Len(x), Len(y))

RECURSIVE OuterSum(_, _, _, _)
\* sum_i w_i * obs_i[p] (outer) obs_i[q], p and q selecting z_t0 (1) or z_tt (2)
OuterSum(obs, p, q, c) ==
    IF obs = <<>> THEN Zeros(c, c)
    ELSE LET rest == OuterSum(Tail(obs), p, q, c)
             term == WeightedOuter(obs[1][3], obs[1][p], obs[1][q])
         IN  Tensor([i \in 1..c |-> [j \in 1..c |-> rest[i][j] + term[i][j]]], c, c)

AllWeightsOne == \A k \in 1..Len(batches) :
                    \A i \in 1..Len(batches[k].pathweight) : batches[k].pathweight[i] = 1

\* C1: from zero accumulators, after any sequence of successful calls each
\* accumulator is the un-normalised weighted sum of outer products over all
\* observations of all batches; with unit weights and one batch C01 is the plain
\* product z_t0^T * z_tt.
C1_WeightedSums ==
    ZeroStart =>
        LET obs == Observations(batches) IN
        /\ C00 = OuterSum(obs, 1, 1, n_comp)
        /\ C01 = OuterSum(obs, 1, 2, n_comp)
        /\ C10 = OuterSum(obs, 2, 1, n_comp)
        /\ C11 = OuterSum(obs, 2, 2, n_comp)
        /\ (Len(batches) = 1 /\ AllWeightsOne) =>
               C01 = MatMul(Transpose(batches[1].z_t0), batches[1].z_tt)

\* two batches in, a weight other than 1, a non-zero total weight of 3 or more
C1_Witness ==
    /\ ZeroStart /\ Len(batches) = 2 /\ ~AllWeightsOne
    /\ n_comp = 2 /\ C01[1][2] >= 2 /\ C00[1][1] >= 3

RECURSIVE Replay(_, _)
\* the accumulators after calling the function on each batch of bs in turn
Replay(bs, acc) ==
    IF bs = <<>> THEN acc
    ELSE LET r == Accumulate(bs[1].z_t0, bs[1].z_tt, bs[1].pathweight,
                             acc.C00, acc.C01, acc.C10, acc.C11)
         IN  Replay(Tail(bs), r.acc)

\* row-wise concatenation of two batches, pathweights concatenated
Concat(a, b) == Batch(a.z_t0 \o b.z_t0, a.z_tt \o b.z_tt, a.pathweight \o b.pathweight)

\* C2: additivity. After two successive successful calls (batch a, then batch
\* b) the accumulators equal those of one call on the concatenation of a and b
\* made from the accumulators that a started from.
C2_Additive ==
    Len(batches) >= 2 =>
        LET k    == Len(batches)
            pre  == Replay(SubSeq(batches, 1, k - 2), start)
            cat  == Concat(batches[k - 1], batches[k])
            once == Accumulate(cat.z_t0, cat.z_tt, cat.pathweight,
                               pre.C00, pre.C01, pre.C10, pre.C11)
        IN  /\ once.result = "returned"
            /\ [C00 |-> C00, C01 |-> C01, C10 |-> C10, C11 |-> C11] = once.acc

\* two batches accumulated onto non-zero starting accumulators
C2_Witness ==
    /\ Len(batches) = 2 /\ ~ZeroStart /\ ~AllWeightsOne
    /\ batches[1] # batches[2] /\ C01 # start.C01

Mismatched(call) ==
    \/ Rows(call.z_t0) # Rows(call.z_tt)
    \/ Rows(call.z_t0) # Len(call.pathweight)
    \/ Rows(call.z_tt) # Len(call.pathweight)
    \/ Cols(call.z_t0) # Cols(call.z_tt)

\* C3: a call whose row counts (z_t0, z_tt, pathweight) or column counts
\* (z_t0, z_tt) disagree ends in an assertion error and leaves all four
\* accumulators at their pre-call values.
C3_AssertBeforeUpdate ==
    [][Mismatched(acc_call') =>
          /\ acc_result' = "AssertionError"
          /\ UNCHANGED <<C00, C01, C10, C11>>]_vars

\* a mismatched call made after a batch has already been accumulated
C3_Witness ==
    /\ acc_result = "AssertionError" /\ Len(batches) >= 1
    /\ Cols(acc_call.z_t0) # Cols(acc_call.z_tt)
    /\ C00 # start.C00

IsSymmetric(M) == M = Transpose(M)

\* C8: if C00 and C11 are symmetric before the first call they are symmetric
\* after every sequence of successful calls, whatever the batches and weights.
C8_Symmetry ==
    (IsSymmetric(start.C00) /\ IsSymmetric(start.C11)) =>
        (IsSymmetric(C00) /\ IsSymmetric(C11))

\* weighted batches in, off-diagonal entries of C00 and C11 populated
C8_Witness ==
    /\ n_comp = 2 /\ Len(batches) >= 1 /\ ~AllWeightsOne
    /\ C00[1][2] # start.C00[1][2] /\ C11[1][2] # start.C11[1][2]
    /\ C01[1][2] # C01[2][1]

\* C9 as stated: from zero accumulators C10 = C01^T exactly in the unweighted
\* case, i.e. once some pathweight differs from 1 and C01 is not itself
\* symmetric, C10 is no longer the transpose of C01.
C9_Original ==
    (ZeroStart /\ Len(batches) >= 1 /\ ~IsSymmetric(C01)) =>
        (C10 = Transpose(C01) <=> AllWeightsOne)

\* C9 amended: from zero accumulators C10 = C01^T after every sequence of
\* successful calls, for unit and non-unit pathweights alike.
C9_TransposeAlways == ZeroStart => C10 = Transpose(C01)

\* a weighted pass that leaves a non-symmetric C01
C9_Witness ==
    /\ ZeroStart /\ Len(batches) >= 1 /\ ~AllWeightsOne
    /\ n_comp = 2 /\ C01[1][2] # C01[2][1] /\ C01[1][2] >= 2

-----------------------------------------------------------------------------
(* stable_symmetric_inverse                                                *)

FloatEps == R(1, EpsDen)

\* torch.isclose elementwise: a == b, or |a - b| <= atol + rtol * |b|
IsClose(a, b) ==
    \/ (~IsNaN(a) /\ a = b)
    \/ FLeq(FAbs(FSub(a, b)), FAdd(R(1, AtolDen), FMul(R(1, RtolDen), FAbs(b))))

\* torch.allclose(A, B, atol=1e-6)
AllClose(A, B) ==
    \A i \in 1..Rows(A) : \A j \in 1..Cols(A) : IsClose(A[i][j], B[i][j])

\* mutant of Threshold: ">=" for ">"
ThresholdInclusive(w) ==
    Tuple([i \in 1..Len(w) |-> IF ~FGreater(FloatEps, w[i]) THEN w[i] ELSE Zero], Len(w))

\* torch.where(w > torch.finfo(torch.float32).eps, w, torch.zeros_like(w))
Threshold(w) ==
    Tuple([i \in 1..Len(w) |-> IF FGreater(w[i], FloatEps) THEN w[i] ELSE Zero], Len(w))

\* w ** (-0.5) or w ** (-1.0), elementwise
Power(w, ret_sqrt) ==
    Tuple([i \in 1..Len(w) |-> IF ret_sqrt THEN PowMinusHalf(w[i]) ELSE PowMinusOne(w[i])],
          Len(w))

\* B = V diag(w ** p) V^T
Reproject(V, w, ret_sqrt) == FMatMul(V, FMatMul(Diag(Power(w, ret_sqrt)), Transpose(V)))

\* inputs: diagonal entries around the threshold eps (eps is k = 2) or of order
\* one, off-diagonal entries 0 or 1
DiagValues == {R(k, 2 * EpsDen) : k \in -MaxEig..MaxEig} \cup {R(1, 1), R(4, 1)}
OffDiagValues == {Zero, One}
InvInputs ==
    {<<<<a, b>>, <<c, d>>>> : a \in DiagValues, d \in DiagValues,
                              b \in OffDiagValues, c \in OffDiagValues}

\* the call can be computed exactly: the assertion fails, or A has an exact
\* eigendecomposition whose kept eigenvalues have exact powers
InvExact(A, ret_sqrt) ==
    \/ ~AllClose(A, Transpose(A))
    \/ /\ EighResults(A) # {}
       /\ ret_sqrt => \A e \in EighResults(A) : \A i \in 1..2 :
              FGreater(e.w[i], FloatEps) => HasExactSqrt(e.w[i])

InvInit ==
    /\ inv_A \in InvInputs
    /\ inv_ret_sqrt \in BOOLEAN
    /\ InvExact(inv_A, inv_ret_sqrt)
    /\ inv_eigh = <<>> /\ inv_w = <<>> /\ inv_B = <<>> /\ inv_result = "none"
    /\ AccIdle /\ EigIdle

StableSymmetricInverse ==
    /\ inv_result = "none"
    /\ IF ~AllClose(inv_A, Transpose(inv_A))
       THEN /\ inv_result' = "AssertionError"
            /\ UNCHANGED <<inv_eigh, inv_w, inv_B>>
       ELSE \E e \in EighResults(inv_A) :
                \E w \in {Threshold(e.w)} :
                    /\ inv_eigh' = e
                    /\ inv_w' = w
                    /\ inv_B' = Reproject(e.V, w, inv_ret_sqrt)
                    /\ inv_result' = "returned"
    /\ UNCHANGED <<inv_A, inv_ret_sqrt, acc_vars, eig_vars>>

InvNext == StableSymmetricInverse

SpecInv == InvInit /\ [][InvNext]_vars

-----------------------------------------------------------------------------
(* Properties of stable_symmetric_inverse                                  *)

HasNaNOrInf(B) == \E i \in 1..Rows(B) : \E j \in 1..Cols(B) : ~IsFinite(B[i][j])

\* some eigenvalue of A is at or below the threshold
NearSingular == \E i \in 1..Len(inv_eigh.w) : FLeq(inv_eigh.w[i], FloatEps)

\* C6: for a symmetric A with an eigenvalue at or below the threshold, with
\* ret_sqrt False or True, the returned B has no NaN and no Inf entry.
C6_NoNaNOrInf ==
    (inv_result = "returned" /\ NearSingular) => ~HasNaNOrInf(inv_B)

\* C10: the threshold maps every eigenvalue w_i <= eps (eps itself and negative
\* values included) to exactly 0, keeps every w_i > eps unchanged, and keeps
\* the length of the spectrum, hence its pairing with the columns of V.
C10_Threshold ==
    inv_result = "returned" =>
        /\ Len(inv_w) = Len(inv_eigh.w)
        /\ Len(inv_w) = Cols(inv_eigh.V)
        /\ \A i \in 1..Len(inv_w) :
              inv_w[i] = IF FLeq(inv_eigh.w[i], FloatEps) THEN Zero ELSE inv_eigh.w[i]

\* a spectrum holding eps itself next to a kept eigenvalue
C10_Witness ==
    /\ inv_result = "returned"
    /\ inv_eigh.w[1] = FloatEps /\ inv_w[1] = Zero
    /\ inv_w[2] = R(3, 2 * EpsDen)

-----------------------------------------------------------------------------
(* gen_eig_chol                                                            *)

\* torch.linalg.cholesky(Q) reads the lower triangle of Q and fails on a pivot
\* that is not positive
CholeskyPivot2(Q) == FSub(Q[2][2], FDiv(FMul(Q[2][1], Q[2][1]), Q[1][1]))
CholeskyFails(Q) ==
    \/ ~FGreater(Q[1][1], Zero)
    \/ ~FGreater(CholeskyPivot2(Q), Zero)

\* the lower-triangular factor L with Q = L L^T
CholeskyFactor(Q) ==
    LET l11 == FSqrt(Q[1][1])
        l21 == FDiv(Q[2][1], l11)
        l22 == FSqrt(FSub(Q[2][2], FMul(l21, l21)))
    IN  <<<<l11, Zero>>, <<l21, l22>>>>

Cholesky(Q) ==
    IF CholeskyFails(Q) THEN [error |-> "RuntimeError", L |-> <<>>]
    ELSE [error |-> "none", L |-> CholeskyFactor(Q)]

\* mutant of Reraise: the RuntimeError of the factorisation is not translated
ReraiseNothing(error) == error

\* try: ... except RuntimeError: raise ValueError(...)
Reraise(error) == IF error = "RuntimeError" THEN "ValueError" ELSE error

\* Ctilde = Linv * C * LTinv
Ctilde(C, L) == FMatMul(Inv2(L), FMatMul(C, Inv2(Transpose(L))))

\* mutant of BackTransform: Linv for LTinv
BackTransformLinv(L, vtilde) == FMatMul(Inv2(L), vtilde)

\* v = LTinv * vtilde
BackTransform(L, vtilde) == FMatMul(Inv2(Transpose(L)), vtilde)

\* mutant of ReorderV: the columns of v are left in ascending order
ReorderVForgotten(v) == v

\* w = torch.flip(w, [0]) and v = torch.flip(v, [1])
ReorderW(w) == FlipVector(w)
ReorderV(v) == FlipColumns(v)

\* inputs: symmetric C with entries in -MaxC..MaxC, symmetric Q with small entries
CEntries == -MaxC..MaxC
QDiagEntries == {-1, 0, 1, 2, 4, 5}
QOffEntries == {-2, -1, 0, 1, 2}
SymC == {Mat2(a, b, b, d) : a \in CEntries, b \in CEntries, d \in CEntries}
SymQ == {Mat2(a, b, b, d) : a \in QDiagEntries, b \in QOffEntries, d \in QDiagEntries}

\* the call can be computed exactly: the factorisation fails, or L is rational
\* and Ctilde has an exact eigendecomposition
EigExact(C, Q) ==
    \/ CholeskyFails(Q)
    \/ /\ HasExactSqrt(Q[1][1]) /\ HasExactSqrt(CholeskyPivot2(Q))
       /\ EighResults(Ctilde(C, CholeskyFactor(Q))) # {}

EigInit ==
    /\ eig_C \in SymC
    /\ eig_Q \in SymQ
    /\ EigExact(eig_C, eig_Q)
    /\ eig_L = <<>> /\ eig_eigh = <<>> /\ eig_w = <<>> /\ eig_v = <<>>
    /\ eig_result = "none"
    /\ AccIdle /\ InvIdle

GenEigChol ==
    /\ eig_result = "none"
    /\ \E ch \in {Cholesky(eig_Q)} :
        IF ch.error # "none"
        THEN /\ eig_result' = Reraise(ch.error)
             /\ UNCHANGED <<eig_L, eig_eigh, eig_w, eig_v>>
        ELSE \E e \in EighResults(Ctilde(eig_C, ch.L)) :
                /\ eig_L' = ch.L
                /\ eig_eigh' = e
                /\ eig_w' = ReorderW(e.w)
                /\ eig_v' = ReorderV(BackTransform(ch.L, e.V))
                /\ eig_result' = "returned"
    /\ UNCHANGED <<eig_C, eig_Q, acc_vars, inv_vars>>

EigNext == GenEigChol

SpecEig == EigInit /\ [][EigNext]_vars

-----------------------------------------------------------------------------
(* Properties of gen_eig_chol                                              *)

\* the smaller eigenvalue (tr - sqrt(disc)) / 2 of the symmetric 2 x 2 tensor Q
\* is zero or negative:  tr <= sqrt(disc),  disc = (a - d)^2 + 4 b^2
HasNonPositiveEigenvalue(Q) ==
    LET tr   == FAdd(Q[1][1], Q[2][2])
        diff == FSub(Q[1][1], Q[2][2])
        disc == FAdd(FMul(diff, diff), FMul(R(4, 1), FMul(Q[1][2], Q[1][2])))
    IN  FLeq(tr, Zero) \/ FLeq(FMul(tr, tr), disc)

\* C4: the call ends in the ValueError exactly when Q has a zero or negative
\* eigenvalue, and then no (w, v) is returned; a positive definite Q returns.
C4_DomainError ==
    eig_result # "none" =>
        /\ HasNonPositiveEigenvalue(eig_Q) => (eig_result = "ValueError" /\ eig_w = <<>> /\ eig_v = <<>>)
        /\ ~HasNonPositiveEigenvalue(eig_Q) => eig_result = "returned"

\* the error raised for a singular Q with positive diagonal (a rank-one Q)
C4_Witness ==
    /\ eig_result = "ValueError"
    /\ eig_Q = Mat2(1, 2, 2, 4)

\* C5: a returned w is non-ascending, and w and the columns of v are the
\* solver's ascending (w, vtilde) under one and the same reversal: w[i] is the
\* solver's eigenvalue n+1-i and column i of v is LTinv * vtilde_(n+1-i), where
\* Ctilde * vtilde_(n+1-i) = w[i] * vtilde_(n+1-i).
C5_Ordering ==
    eig_result = "returned" =>
        LET n  == Len(eig_w)
            bt == FMatMul(Inv2(Transpose(eig_L)), eig_eigh.V)
            ct == FMatMul(Inv2(eig_L), FMatMul(eig_C, Inv2(Transpose(eig_L))))
        IN  /\ \A i \in 1..(n - 1) : FLeq(eig_w[i + 1], eig_w[i])
            /\ \A i \in 1..n :
                  /\ eig_w[i] = eig_eigh.w[n + 1 - i]
                  /\ Column(eig_v, i) = Column(bt, n + 1 - i)
                  /\ \A r \in 1..n :
                        Column(FMatMul(ct, eig_eigh.V), n + 1 - i)[r]
                            = FMul(eig_w[i], eig_eigh.V[r][n + 1 - i])

\* two distinct eigenvalues and a Cholesky factor that is not diagonal
C5_Witness ==
    /\ eig_result = "returned"
    /\ FGreater(eig_w[1], eig_w[2])
    /\ eig_L[2][1] # Zero
    /\ Column(eig_v, 1) # Column(eig_v, 2)

\* C7: every returned pair satisfies C * v_i = w[i] * Q * v_i.
C7_GeneralizedEigenpairs ==
    eig_result = "returned" =>
        \A i \in 1..Len(eig_w) : \A r \in 1..Rows(eig_v) :
            Column(FMatMul(eig_C, eig_v), i)[r]
                = FMul(eig_w[i], Column(FMatMul(eig_Q, eig_v), i)[r])

\* a non-diagonal Q, a non-zero C and two distinct, non-zero eigenvalues
C7_Witness ==
    /\ eig_result = "returned"
    /\ eig_Q[1][2] # Zero /\ eig_C[1][2] # Zero
    /\ eig_w[1] # eig_w[2] /\ eig_w[1] # Zero /\ eig_w[2] # Zero

====
